---- MODULE Spec2Model ----
(***************************************************************************)
(* News title collector: newsScrp.py (CLI, collect_titles), web/server.py  *)
(* (search_stream.generate, built on the newsScrp helpers) and             *)
(* api/search.py (search_stream.generate with its own copies of the        *)
(* helpers).                                                               *)
(*                                                                         *)
(* Text is a sequence of Unicode code points (TLA+ strings cannot be       *)
(* indexed): "3일" is <<51, 51068>>.  The comment after a literal gives    *)
(* the text it stands for.                                                 *)
(***************************************************************************)
EXTENDS Integers, Sequences, FiniteSets, TLC

VARIABLES
    ctrl,             \* entry point: "cli" | "web" | "api"
    q,                \* query
    limit_arg,        \* the limit the caller supplied
    limit,            \* effective limit (after the clamp)
    exclude_keywords, \* raw comma-separated request parameter
    exclude_suffixes, \* raw comma-separated request parameter
    env_key,          \* FIRECRAWL_KEY of the environment ("" when unset)
    cfg_key,          \* the --key argument in ~/.cursor/mcp.json ("" when none)
    key,              \* what read_firecrawl_key() returned
    custom_exclude_keywords,
    custom_exclude_suffixes,
    pc,               \* "idle" | "loop" | "fetch" | "calling" | "scan" |
                      \* "page_end" | "done"
    results,          \* the ResultSet: sequence of [title, url]
    start,            \* page cursor
    attempts,         \* retry counter
    max_pages,        \* page budget
    elapsed,          \* time.time() - timeout_start, whole seconds
    new_items,        \* candidates of the page being scanned
    idx,              \* position of the next candidate in new_items
    new_count,        \* items accepted from the page being scanned
    exit,             \* "running" | "complete" | "error" | "SystemExit" | "raised"
    csv,              \* rows written by save_csv; <<>> while no file exists
    csv_written,      \* whether save_csv created the file
    out,              \* events yielded (lines printed, for the CLI) by the last step
    count,            \* how many start, item, timeout, complete events were emitted
    lastCall,         \* the latest upstream call: the page fetched and the answer's
                      \* kind, status, body, and whether it carried no html field
    keywords_added,   \* what the process has appended to the module-level list
                      \* EXCLUDE_KEYWORDS since the module was loaded
    suffixes_added,   \* the same for QUERY_SUFFIXES
    parked,           \* the locals of the other request the process serves, which
                      \* is suspended (NoRequest when there is none)
    running           \* which of the two requests the variables above belong to

vars == <<ctrl, q, limit_arg, limit, exclude_keywords, exclude_suffixes,
          env_key, cfg_key, key,
          custom_exclude_keywords, custom_exclude_suffixes, pc, results, start,
          attempts, max_pages, elapsed, new_items, idx, new_count, exit, csv,
          csv_written, out, count, lastCall,
          keywords_added, suffixes_added, parked, running>>

----------------------------------------------------------------------------
(* Bounds of the model *)

\* attempts is stored up to this value; every comparison the code makes with
\* it (> 3, > 5, min(5, 1 + n), min(10, 2 + 2n)) is decided below it
AttemptsCap == 7
\* stands for max_pages = 300 of collect_titles and web/server.py
PageBudget == 3
\* stands for timeout_limit = 120 (seconds) of api/search.py
TimeBudget == 20

----------------------------------------------------------------------------
(* Python str operations on code-point sequences *)

Min(a, b) == IF a < b THEN a ELSE b
Max(a, b) == IF a > b THEN a ELSE b

\* str.lower(): A-Z to a-z; Hangul syllables and digits have no case
Lower(s) == [i \in 1..Len(s) |-> IF 65 <= s[i] /\ s[i] <= 90 THEN s[i] + 32 ELSE s[i]]

\* sub in s
Contains(sub, s) ==
    \E i \in 1..(Len(s) - Len(sub) + 1) : SubSeq(s, i, i + Len(sub) - 1) = sub

\* s.replace(ch, "") for a single character ch
Remove(s, ch) == SelectSeq(s, LAMBDA c : c # ch)

IsSpace(c) == c \in {9, 10, 13, 32}

\* str.strip()
Strip(s) ==
    LET keep == {i \in 1..Len(s) : ~IsSpace(s[i])}
    IN IF keep = {} THEN <<>>
       ELSE LET lo == CHOOSE i \in keep : \A j \in keep : i <= j
                hi == CHOOSE i \in keep : \A j \in keep : j <= i
            IN SubSeq(s, lo, hi)

\* [x.strip() for x in s.split(',') if x.strip()]
RECURSIVE SplitStrip(_)
SplitStrip(s) ==
    LET commas == {i \in 1..Len(s) : s[i] = 44}
    IN IF commas = {}
       THEN IF Strip(s) = <<>> THEN <<>> ELSE <<Strip(s)>>
       ELSE LET c == CHOOSE i \in commas : \A j \in commas : i <= j
                head == Strip(SubSeq(s, 1, c - 1))
                rest == SplitStrip(SubSeq(s, c + 1, Len(s)))
            IN IF head = <<>> THEN rest ELSE <<head>> \o rest

----------------------------------------------------------------------------
(* Exclusion filter *)

\* the literal EXCLUDE_KEYWORDS is bound to when the module is loaded
StaticKeywords ==
    << <<49, 48149, 50, 51068>>,          \* 1박2일
       <<51204, 53685, 49884, 51109>>,    \* 전통시장
       <<49444, 47749, 54924>>,           \* 설명회
       <<50556, 44396>>,                  \* 야구
       <<49849, 51652>>,                  \* 승진
       <<49324, 44284, 47928>>,           \* 사과문
       <<52292, 50857>>,                  \* 채용
       <<45216, 50472>>,                  \* 날씨
       <<44208, 54844>>,                  \* 결혼
       <<54633, 44201, 51088>>,           \* 합격자
       <<49884, 49345, 49885>>,           \* 시상식
       <<52397, 50557>>,                  \* 청약
       <<45824, 54924>>,                  \* 대회
       <<52629, 51228>>,                  \* 축제
       <<45817, 49440, 51089>>,           \* 당선작
       <<48149, 46988, 54924>>,           \* 박람회
       <<49688, 49345, 51088>>,           \* 수상자
       <<54168, 49828, 54000, 48268>>,    \* 페스티벌
       <<47560, 46972, 53668>>,           \* 마라톤
       <<52896, 54168, 51064>>,           \* 캠페인
       <<44480, 45453>>,                  \* 귀농
       <<44480, 52492>>,                  \* 귀촌
       <<54056, 49496, 49660>>,           \* 패션쇼
       <<48120, 49696, 51228>>,           \* 미술제
       <<44208, 48169>>,                  \* 결방
       <<47928, 54868, 51228>>,           \* 문화제
       <<91, 54252, 53664, 93>>,          \* [포토]
       <<51020, 50501, 44537>>,           \* 음악극
       <<53364, 47000, 49885>> >>         \* 클래식

\* the literal QUERY_SUFFIXES is bound to when the module is loaded
StaticSuffixes ==
    << <<44036>>,            \* 간
       <<46041, 50504>>,     \* 동안
       <<47564>>,            \* 만
       <<44036, 51032>>,     \* 간의
       <<47564, 51032>>,     \* 만의
       <<47564, 50640>> >>   \* 만에

\* the module-level lists as a filter reads them
EXCLUDE_KEYWORDS == StaticKeywords \o keywords_added
QUERY_SUFFIXES == StaticSuffixes \o suffixes_added

\* title.replace(" ", "").replace("-", "")
Compact(title) == Remove(Remove(title, 32), 45)

\* newsScrp.should_exclude_by_keywords
should_exclude_by_keywords_cli(title) ==
    IF title = <<>> THEN FALSE
    ELSE LET t == Lower(title)
             t_compact == Compact(t)
         IN \/ \E i \in 1..Len(EXCLUDE_KEYWORDS) :
                  LET k == Lower(EXCLUDE_KEYWORDS[i])
                  IN Contains(k, t) \/ Contains(k, t_compact)
            \/ Contains(<<49, 48149, 32, 50, 51068>>, title)            \* 1박 2일
            \/ Contains(<<49, 32, 48149, 32, 50, 32, 51068>>, title)    \* 1 박 2 일

\* a faulty keyword check: the title is searched as it is
should_exclude_by_keywords_raw(title) ==
    \E i \in 1..Len(EXCLUDE_KEYWORDS) : Contains(EXCLUDE_KEYWORDS[i], title)

\* api/search.should_exclude_by_keywords
should_exclude_by_keywords_api(title) ==
    LET title_clean == Compact(title)
    IN \E i \in 1..Len(EXCLUDE_KEYWORDS) : Contains(EXCLUDE_KEYWORDS[i], title_clean)

\* the three patterns built from a query and one suffix
SuffixPatterns(query, suffix) ==
    {query \o suffix, query \o <<32>> \o suffix, Remove(query, 32) \o suffix}

\* newsScrp.should_exclude_by_query_suffix
should_exclude_by_query_suffix_cli(title, query) ==
    IF title = <<>> \/ query = <<>> THEN FALSE
    ELSE LET t == Lower(title)
             qq == Strip(Lower(query))
         IN IF qq = <<>> THEN FALSE
            ELSE \E i \in 1..Len(QUERY_SUFFIXES) :
                    \E p \in SuffixPatterns(qq, Lower(QUERY_SUFFIXES[i])) :
                        Contains(p, t)

\* api/search.should_exclude_by_query_suffix
should_exclude_by_query_suffix_api(title, query) ==
    LET title_lower == Lower(title)
        query_lower == Lower(query)
    IN \E i \in 1..Len(QUERY_SUFFIXES) :
          \E p \in SuffixPatterns(query_lower, QUERY_SUFFIXES[i]) :
              Contains(p, title_lower)

\* the inline check of the caller-supplied keywords (web/server.py, api/search.py)
CustomKeywordSkip(title, keywords) ==
    \E i \in 1..Len(keywords) : Contains(keywords[i], Compact(title))

\* the inline check of the caller-supplied suffixes (web/server.py, api/search.py)
CustomSuffixSkip(title, query, suffixes) ==
    \E i \in 1..Len(suffixes) :
        \E p \in SuffixPatterns(query, suffixes[i]) :
            Contains(Lower(p), Lower(title))

----------------------------------------------------------------------------
(* Dedup engine *)

\* [A-Za-z0-9가-힣]
IsWordChar(c) ==
    \/ (48 <= c /\ c <= 57)           \* 0-9
    \/ (65 <= c /\ c <= 90)           \* A-Z
    \/ (97 <= c /\ c <= 122)          \* a-z
    \/ (44032 <= c /\ c <= 55203)     \* 가-힣

\* re.findall(r"[A-Za-z0-9가-힣]+", s) as a set: the maximal runs of word characters
FindAllWords(s) ==
    {SubSeq(s, i, j) : <<i, j>> \in
        {p \in (1..Len(s)) \X (1..Len(s)) :
            /\ p[1] <= p[2]
            /\ \A k \in p[1]..p[2] : IsWordChar(s[k])
            /\ (p[1] = 1 \/ ~IsWordChar(s[p[1] - 1]))
            /\ (p[2] = Len(s) \/ ~IsWordChar(s[p[2] + 1]))}}

\* newsScrp.tokenize (its only caller turns the list into a set)
tokenize_cli(text) == {t \in FindAllWords(Lower(text)) : Len(t) >= 2}

\* api/search.tokenize
tokenize_api(text) == FindAllWords(Lower(text))

\* newsScrp.has_overlap_three_or_more
has_overlap_three_or_more_cli(candidate, existing) ==
    LET cand_tokens == tokenize_cli(candidate)
    IN IF cand_tokens = {} THEN FALSE
       ELSE \E i \in 1..Len(existing) :
               Cardinality(cand_tokens \cap tokenize_cli(existing[i])) >= 3

\* api/search.has_overlap_three_or_more
has_overlap_three_or_more_api(title, existing_titles) ==
    LET new_tokens == tokenize_api(title)
    IN \E i \in 1..Len(existing_titles) :
          Cardinality(new_tokens \cap tokenize_api(existing_titles[i])) >= 3

----------------------------------------------------------------------------
(* Title extractor.  A page is the parsed document: the elements the primary *)
(* selector matches and the anchors the legacy selector matches.  An        *)
(* optional value is a sequence of length 0 or 1.                           *)

\* html == "" (the value used when the response carries no HTML)
EmptyHtml == [blank |-> TRUE, primary |-> <<>>, legacy |-> <<>>]

\* re.search(r"바로가기|옵션|더보기|네이버|검색", t)
IsChrome(t) ==
    \/ Contains(<<48148, 47196, 44032, 44592>>, t)   \* 바로가기
    \/ Contains(<<50741, 49496>>, t)                 \* 옵션
    \/ Contains(<<45908, 48372, 44592>>, t)          \* 더보기
    \/ Contains(<<45348, 51060, 48260>>, t)          \* 네이버
    \/ Contains(<<44160, 49353>>, t)                 \* 검색

\* a = el.find_parent("a") or el.find("a"); link = a.get("href") or ""
\* (el.parent, el.child: the href of that anchor, "" when it has none)
ElementLink(el) ==
    IF el.parent # <<>> THEN el.parent[1]
    ELSE IF el.child # <<>> THEN el.child[1]
    ELSE <<>>

\* the primary-selector loop, the same in both files
PrimaryItems(html) ==
    LET kept == SelectSeq(html.primary,
                    LAMBDA el : Strip(el.text) # <<>> /\ ~IsChrome(Strip(el.text)))
    IN [i \in 1..Len(kept) |->
            [title |-> Strip(kept[i].text), url |-> ElementLink(kept[i])]]

\* t = (a.get("title") or a.get_text(strip=True) or "").strip()
AnchorTitle(a) == Strip(IF a.title # <<>> THEN a.title ELSE Strip(a.text))

\* newsScrp.extract_titles_from_html
extract_titles_from_html_cli(html) ==
    IF PrimaryItems(html) # <<>> THEN PrimaryItems(html)
    ELSE LET kept == SelectSeq(html.legacy,
                        LAMBDA a : AnchorTitle(a) # <<>> /\ ~IsChrome(AnchorTitle(a)))
         IN [i \in 1..Len(kept) |->
                 [title |-> AnchorTitle(kept[i]), url |-> kept[i].href]]

\* api/search.extract_titles_from_html: the fallback also wants a link
extract_titles_from_html_api(html) ==
    IF PrimaryItems(html) # <<>> THEN PrimaryItems(html)
    ELSE LET kept == SelectSeq(html.legacy,
                        LAMBDA a : /\ AnchorTitle(a) # <<>>
                                   /\ Strip(a.href) # <<>>
                                   /\ ~IsChrome(AnchorTitle(a)))
         IN [i \in 1..Len(kept) |->
                 [title |-> AnchorTitle(kept[i]), url |-> Strip(kept[i].href)]]

----------------------------------------------------------------------------
(* Fetch client.  An upstream answer is                                     *)
(*   [kind: "http" | "neterr", status, reason, text, data_html, top_html]   *)
(* where data_html / top_html are the optional JSON fields data.html, html. *)

\* str(n) for n >= 0
RECURSIVE Digits(_)
Digits(n) == IF n < 10 THEN <<48 + n>> ELSE Digits(n \div 10) \o <<48 + (n % 10)>>

RATE_LIMIT == <<82, 65, 84, 69, 95, 76, 73, 77, 73, 84>>                \* RATE_LIMIT

\* newsScrp.firecrawl_scrape: [ok |-> TRUE, html] or [ok |-> FALSE, type, msg]
firecrawl_scrape_cli(resp) ==
    IF resp.kind = "neterr"
    THEN [ok |-> FALSE, type |-> "ConnectionError", msg |-> resp.text]
    ELSE IF resp.status = 429
    THEN [ok |-> FALSE, type |-> "RuntimeError", msg |-> RATE_LIMIT]
    ELSE IF resp.status >= 400 /\ resp.status < 600          \* raise_for_status()
    THEN [ok |-> FALSE, type |-> "HTTPError",
          msg |-> Digits(resp.status) \o <<32, 69, 114, 114, 111, 114, 58, 32>>
                  \o resp.reason]                           \* "<status> Error: <reason>"
    ELSE [ok |-> TRUE,
          html |-> IF resp.data_html # <<>> /\ ~resp.data_html[1].blank
                   THEN resp.data_html[1]
                   ELSE IF resp.top_html # <<>> THEN resp.top_html[1]
                   ELSE EmptyHtml]

\* api/search.firecrawl_scrape
firecrawl_scrape_api(resp) ==
    IF resp.kind = "neterr"
    THEN [ok |-> FALSE, type |-> "ConnectionError", msg |-> resp.text]
    ELSE IF resp.status = 200
    THEN [ok |-> TRUE,
          html |-> IF resp.data_html # <<>> THEN resp.data_html[1] ELSE EmptyHtml]
    ELSE LET error_msg == <<72, 84, 84, 80, 32>> \o Digits(resp.status)
                          \o <<58, 32>> \o resp.text      \* "HTTP <status>: <text>"
         IN IF Contains(<<114, 97, 116, 101, 32, 108, 105, 109, 105, 116>>,
                        Lower(error_msg))                 \* "rate limit"
            THEN [ok |-> FALSE, type |-> "Exception",
                  msg |-> RATE_LIMIT \o <<58, 32>> \o error_msg]
            ELSE [ok |-> FALSE, type |-> "Exception", msg |-> error_msg]

\* what the caller's try/except makes of a scrape: newsScrp.collect_titles
\* compares str(e) with "RATE_LIMIT" for a RuntimeError; the two generators
\* look for "RATE_LIMIT" inside str(e)
Outcome(c, r) ==
    IF r.ok THEN "Success"
    ELSE IF c = "cli"
    THEN IF r.type = "RuntimeError" /\ r.msg = RATE_LIMIT
         THEN "RateLimited" ELSE "TransientError"
    ELSE IF Contains(RATE_LIMIT, r.msg) THEN "RateLimited" ELSE "TransientError"

\* the scrape function a controller calls: web/server.py imports newsScrp's
firecrawl_scrape(c, resp) ==
    IF c = "api" THEN firecrawl_scrape_api(resp) ELSE firecrawl_scrape_cli(resp)

extract_titles_from_html(c, html) ==
    IF c = "api" THEN extract_titles_from_html_api(html)
    ELSE extract_titles_from_html_cli(html)

----------------------------------------------------------------------------
(* Inputs: callers' parameters, the environment, what the upstream returns *)

Queries == { <<51, 51068>> }                                  \* 3일
RawLimits == {0, 2, 5, 101}
\* FIRECRAWL_KEY and the --key of mcp.json: neither, a blank variable, both
\* blank, the variable "k1", only the file with " k1 "
Credentials == { << <<>>, <<>> >>,
                 << <<32>>, <<>> >>,
                 << <<32>>, <<32>> >>,
                 << <<107, 49>>, <<>> >>,
                 << <<>>, <<32, 107, 49, 32>> >> }
\* exclude_keywords and exclude_suffixes of a request: none, or "ee, " and "쯤"
ExtraParams == { <<<<>>, <<>>>>, << <<101, 101, 44, 32>>, <<52196>> >> }

TitleA == <<97, 97, 32, 98, 98, 32, 99, 99, 32, 120>>         \* aa bb cc x
TitleB == <<97, 97, 32, 98, 98, 32, 99, 99>>                  \* aa bb cc
TitleC == <<97, 97, 32, 98, 98, 32, 120>>                     \* aa bb x
TitleD == <<51, 51068, 44036, 51032, 32, 50668, 51221>>       \* 3일간의 여정
TitleE == <<50, 51068, 32, 50556, 44396, 32, 44221, 44592, 32, 44208, 44284>>
                                                              \* 2일 야구 경기 결과
TitleF == <<100, 100, 32, 101, 101>>                          \* dd ee
TitleG == <<51, 51068, 52196, 32, 104, 104>>                  \* 3일쯤 hh
TitleN == <<45348, 51060, 48260, 32, 97, 97>>                 \* 네이버 aa
Url1 == <<117, 49>>                                           \* u1
Url2 == <<117, 50>>                                           \* u2

El(t, p, c) == [text |-> t, parent |-> p, child |-> c]
Anchor(ti, t, h) == [title |-> ti, text |-> t, href |-> h]

Page1 == [blank |-> FALSE,
          primary |-> << El(TitleA, <<Url1>>, <<>>),
                         El(<<32>> \o TitleA \o <<32>>, <<>>, <<Url2>>),
                         El(TitleC, <<>>, <<>>),
                         El(TitleB, <<Url1>>, <<Url2>>) >>,
          legacy |-> << Anchor(<<>>, TitleF, Url1) >>]
Page2 == [blank |-> FALSE,
          primary |-> << El(TitleC, <<Url2>>, <<>>),
                         El(TitleB, <<Url1>>, <<>>),
                         El(TitleE, <<Url1>>, <<>>),
                         El(TitleF, <<Url1>>, <<>>) >>,
          legacy |-> <<>>]
Page3 == [blank |-> FALSE,
          primary |-> << El(TitleN, <<Url1>>, <<>>), El(<<32>>, <<>>, <<>>) >>,
          legacy |-> << Anchor(<<>>, TitleD, Url1),
                        Anchor(TitleF, <<120>>, <<>>),
                        Anchor(<<>>, TitleN, Url2),
                        Anchor(<<>>, TitleG, Url2) >>]
\* markup that neither selector matches
Page4 == [blank |-> FALSE, primary |-> <<>>, legacy |-> <<>>]

Docs == {Page1, Page2, Page3, Page4, EmptyHtml}

ErrorTexts == { <<115, 108, 111, 119>>,                                 \* slow
                <<82, 97, 116, 101, 32, 76, 105, 109, 105, 116>>,       \* Rate Limit
                RATE_LIMIT }

Responses ==
    {[kind |-> "http", status |-> 200, reason |-> <<>>, text |-> <<>>,
      data_html |-> <<d>>, top_html |-> <<>>] : d \in Docs}
    \cup
    {[kind |-> "http", status |-> 200, reason |-> <<>>, text |-> <<>>,
      data_html |-> <<>>, top_html |-> t] : t \in {<<>>, <<Page2>>}}
    \cup
    {[kind |-> "http", status |-> s, reason |-> <<101, 114, 114>>, text |-> t,
      data_html |-> <<>>, top_html |-> <<>>] : s \in {429, 500}, t \in ErrorTexts}
    \cup
    {[kind |-> "neterr", status |-> 0, reason |-> <<>>,
      text |-> <<116, 105, 109, 101, 100, 32, 111, 117, 116>>,          \* timed out
      data_html |-> <<>>, top_html |-> <<>>]}

\* the answers drawn while the process serves two requests: a page whose
\* candidates the caller's extras decide on, a page with plain titles, a rate
\* limit, a network failure
ConcResponses ==
    {[kind |-> "http", status |-> 200, reason |-> <<>>, text |-> <<>>,
      data_html |-> <<d>>, top_html |-> <<>>] : d \in {Page2, Page3}}
    \cup
    {[kind |-> "http", status |-> 429, reason |-> <<101, 114, 114>>,
      text |-> <<82, 97, 116, 101, 32, 76, 105, 109, 105, 116>>,
      data_html |-> <<>>, top_html |-> <<>>]}
    \cup
    {[kind |-> "neterr", status |-> 0, reason |-> <<>>,
      text |-> <<116, 105, 109, 101, 100, 32, 111, 117, 116>>,
      data_html |-> <<>>, top_html |-> <<>>]}

Controllers == {"cli", "web", "api"}

\* one call of firecrawl_scrape and what the caller's try/except makes of it,
\* for every controller and every answer of the pool (a table, so that each
\* scrape is evaluated once)
Scraped ==
    [c \in Controllers, resp \in Responses |->
        LET r == firecrawl_scrape(c, resp)
        IN [outcome |-> Outcome(c, r),
            items |-> IF r.ok THEN extract_titles_from_html(c, r.html) ELSE <<>>]]

\* no other request is being served
NoRequest == [pc |-> "none"]

\* no call was made yet
NoCall == [page |-> 0, kind |-> "none", status |-> 0, text |-> <<>>, no_html |-> TRUE]

----------------------------------------------------------------------------
(* Entry points *)

\* newsScrp.read_firecrawl_key: FIRECRAWL_KEY, else the --key of mcp.json
read_firecrawl_key_cli(env, cfg) ==
    IF Strip(env) # <<>> THEN Strip(env) ELSE Strip(cfg)

\* a faulty reader: os.getenv("FIRECRAWL_KEY", "") without .strip()
read_firecrawl_key_unstripped(env) == env

\* api/search.read_firecrawl_key
read_firecrawl_key_api(env) == Strip(env)

\* web/server.py imports newsScrp's reader
read_firecrawl_key(c, env, cfg) ==
    IF c = "api" THEN read_firecrawl_key_api(env) ELSE read_firecrawl_key_cli(env, cfg)

\* limit = min(100, max(1, int(args.limit)))   (newsScrp.main)
ClampCli(n) == Min(100, Max(1, n))
\* a faulty clamp: the lower end is forgotten
ClampStream_nofloor(n) == Min(100, n)
\* limit = max(1, min(100, limit))             (both search_stream handlers)
ClampStream(n) == Max(1, Min(100, n))

timeout_limit == TimeBudget

\* the bound of "if attempts > N"
RetryBound(c) == IF c = "api" THEN 3 ELSE 5
\* wait = min(5, 1 + attempts) / min(10, 2 + attempts * 2)
Backoff(c, n) == IF c = "api" THEN Min(5, 1 + n) ELSE Min(10, 2 + n * 2)
\* the sleep after a transient error
ErrorDelay(c) == IF c = "api" THEN 1 ELSE 2
\* max_pages
MaxPages(c, lim) == IF c = "api" THEN Min(3, (lim \div 5) + 1) ELSE PageBudget

\* the events a run emits once, or once per accepted item
CountedTypes == {"start", "item", "timeout", "complete"}

TypeOf(e) == IF "type" \in DOMAIN e THEN e.type ELSE "untyped"

\* how many events of type t are in evs
CountIn(evs, t) == Cardinality({i \in 1..Len(evs) : TypeOf(evs[i]) = t})

\* the step yields (prints) evs
Emit(evs) ==
    /\ out' = evs
    /\ count' = [t \in CountedTypes |-> count[t] + CountIn(evs, t)]

\* the closing event of a stream
Complete(rs) == [type |-> "complete", total |-> Len(rs)]

Titles(rs) == [i \in 1..Len(rs) |-> rs[i].title]

\* the state at the entry of a request whose limit is one of limits
Entry(limits) ==
    /\ ctrl \in Controllers
    /\ q \in Queries
    /\ limit_arg \in limits
    /\ limit = IF ctrl = "cli" THEN ClampCli(limit_arg) ELSE ClampStream(limit_arg)
    /\ \E x \in IF ctrl = "cli" THEN {<<<<>>, <<>>>>} ELSE ExtraParams :
          exclude_keywords = x[1] /\ exclude_suffixes = x[2]
    /\ \E c \in Credentials : env_key = c[1] /\ cfg_key = c[2]
    /\ key = <<>>
    /\ custom_exclude_keywords = <<>>
    /\ custom_exclude_suffixes = <<>>
    /\ pc = "idle"
    /\ results = <<>>
    /\ start = 1
    /\ attempts = 0
    /\ max_pages = 0
    /\ elapsed = 0
    /\ new_items = <<>>
    /\ idx = 1
    /\ new_count = 0
    /\ exit = "running"
    /\ csv = <<>>
    /\ csv_written = FALSE
    /\ out = <<>>
    /\ count = [t \in CountedTypes |-> 0]
    /\ lastCall = NoCall
    /\ keywords_added = <<>>
    /\ suffixes_added = <<>>

\* the process serves one request
Alone == parked = NoRequest /\ running = 1

Init == Entry(RawLimits) /\ Alone

----------------------------------------------------------------------------
(* Collection controller *)

params == <<ctrl, q, limit_arg, limit, exclude_keywords, exclude_suffixes,
            env_key, cfg_key>>
custom == <<key, custom_exclude_keywords, custom_exclude_suffixes>>
page == <<new_items, idx, new_count>>
files == <<csv, csv_written>>
\* what a step of a request does not touch: the module-level lists and the
\* other request
process == <<keywords_added, suffixes_added, parked, running>>

Streaming == ctrl \in {"web", "api"}

\* if not key
KeyMissing(k) == k = <<>>

\* a faulty loop test: one page beyond the budget
LoopCond_wide(rs, lim, st, mp) == Len(rs) < lim /\ st <= 1 + mp * 10

\* while len(results) < limit and start <= 1 + (max_pages - 1) * 10
LoopCond(rs, lim, st, mp) == Len(rs) < lim /\ st <= 1 + (mp - 1) * 10

\* a faulty budget check: the clock is never consulted
TimedOut_never(c, e) == FALSE

\* if time.time() - timeout_start > timeout_limit   (api/search.py only)
TimedOut(c, e) == c = "api" /\ e > timeout_limit

\* a faulty break: len(results) > limit
BreakOnLimit_late(rs, lim) == Len(rs) > lim

\* if len(results) >= limit: break
BreakOnLimit(rs, lim) == Len(rs) >= lim

\* a faulty exact check: only the latest accepted title is compared
ExactDup_last(title, existing) ==
    existing # <<>> /\ existing[Len(existing)] = title

\* if title in existing_titles
ExactDup(title, existing) == \E i \in 1..Len(existing) : existing[i] = title

\* the keyword checks of the loop: the static list, then the caller's keywords
KeywordFilter(c, title, kws) ==
    IF c = "api"
    THEN should_exclude_by_keywords_api(title) \/ CustomKeywordSkip(title, kws)
    ELSE \/ should_exclude_by_keywords_cli(title)
         \/ (c = "web" /\ CustomKeywordSkip(title, kws))

\* the suffix checks of the loop: the caller's suffixes, then the static list
SuffixFilter(c, title, query, sufs) ==
    IF c = "api"
    THEN \/ CustomSuffixSkip(title, query, sufs)
         \/ should_exclude_by_query_suffix_api(title, query)
    ELSE \/ (c = "web" /\ CustomSuffixSkip(title, query, sufs))
         \/ should_exclude_by_query_suffix_cli(title, query)

\* a faulty chain: the suffix checks sit in the else of "if custom_exclude_keywords"
Excluded_short(c, title, query, kws, sufs) ==
    \/ KeywordFilter(c, title, kws)
    \/ (kws = <<>> /\ SuffixFilter(c, title, query, sufs))

\* the keyword and suffix checks a candidate goes through
Excluded(c, title, query, kws, sufs) ==
    IF c = "api"
    THEN \/ should_exclude_by_keywords_api(title)
         \/ CustomKeywordSkip(title, kws)
         \/ CustomSuffixSkip(title, query, sufs)
         \/ should_exclude_by_query_suffix_api(title, query)
    ELSE \/ should_exclude_by_keywords_cli(title)
         \/ (c = "web" /\ CustomKeywordSkip(title, kws))
         \/ (c = "web" /\ CustomSuffixSkip(title, query, sufs))
         \/ should_exclude_by_query_suffix_cli(title, query)

has_overlap_three_or_more(c, title, existing) ==
    IF c = "api" THEN has_overlap_three_or_more_api(title, existing)
    ELSE has_overlap_three_or_more_cli(title, existing)

\* the candidate is skipped (one of the "continue" branches is taken)
Rejects(c, title, existing, query, kws, sufs) ==
    \/ ExactDup(title, existing)
    \/ Excluded(c, title, query, kws, sufs)
    \/ has_overlap_three_or_more(c, title, existing)

\* results[:limit]
Truncate(rs, lim) == SubSeq(rs, 1, Min(lim, Len(rs)))

\* a faulty parse: the extras are collected in lists of the module, which
\* still hold those of the other request
ParseCustom_module ==
    LET held(f) == IF parked # NoRequest THEN parked[f] ELSE <<>>
    IN /\ custom_exclude_keywords' =
             IF Streaming
             THEN held("custom_exclude_keywords") \o SplitStrip(exclude_keywords)
             ELSE <<>>
       /\ custom_exclude_suffixes' =
             IF Streaming
             THEN held("custom_exclude_suffixes") \o SplitStrip(exclude_suffixes)
             ELSE <<>>

\* custom_exclude_keywords / custom_exclude_suffixes of generate()
ParseCustom ==
    /\ custom_exclude_keywords' =
          IF Streaming THEN SplitStrip(exclude_keywords) ELSE <<>>
    /\ custom_exclude_suffixes' =
          IF Streaming THEN SplitStrip(exclude_suffixes) ELSE <<>>

\* what the upstream may answer to the call
Answers == IF parked = NoRequest THEN Responses ELSE ConcResponses

\* firecrawl_scrape(build_search_url(q, start), key) is answered by resp
Log(resp) ==
    lastCall' = [page |-> start, kind |-> resp.kind, status |-> resp.status,
                 text |-> resp.text,
                 no_html |-> resp.data_html = <<>> /\ resp.top_html = <<>>]

\* the credential check fails: an error event and return (generate), SystemExit
\* out of collect_titles after main printed its first line (CLI)
MissingKey ==
    /\ pc = "idle"
    /\ key' = read_firecrawl_key(ctrl, env_key, cfg_key)
    /\ KeyMissing(key')
    /\ ParseCustom
    /\ Emit(IF ctrl = "api" THEN <<[type |-> "error", message |-> "key"]>>
            ELSE IF ctrl = "web" THEN <<[error |-> "key"]>>
            ELSE <<[type |-> "start", query |-> q, limit |-> limit]>>)
    /\ exit' = IF ctrl = "cli" THEN "SystemExit" ELSE "error"
    /\ pc' = "done"
    /\ UNCHANGED <<params, process, results, start, attempts, max_pages, elapsed, page,
                   files, lastCall>>

\* the code from the entry to the first evaluation of the while condition
Begin ==
    /\ pc = "idle"
    /\ key' = read_firecrawl_key(ctrl, env_key, cfg_key)
    /\ ~KeyMissing(key')
    /\ ParseCustom
    /\ Emit(IF ctrl = "api"
            THEN <<[type |-> "debug", what |-> "key"],
                   [type |-> "start", query |-> q, limit |-> limit]>>
            ELSE <<[type |-> "start", query |-> q, limit |-> limit]>>)
    /\ results' = <<>>
    /\ start' = 1
    /\ attempts' = 0
    /\ max_pages' = MaxPages(ctrl, limit)
    /\ elapsed' = 0
    /\ pc' = "loop"
    /\ UNCHANGED <<params, process, page, exit, files, lastCall>>

\* the while condition is false: complete (generate); return results[:limit],
\* then save_csv and the closing prints (main)
LoopExit ==
    /\ pc = "loop"
    /\ ~LoopCond(results, limit, start, max_pages)
    /\ IF Streaming
       THEN /\ Emit(<<Complete(results)>>)
            /\ UNCHANGED files
       ELSE /\ csv' = Truncate(results, limit)
            /\ csv_written' = TRUE
            /\ Emit(<<[type |-> "saved", rows |-> Len(Truncate(results, limit))]>>)
    /\ exit' = "complete"
    /\ pc' = "done"
    /\ UNCHANGED <<params, process, custom, results, start, attempts, max_pages, elapsed,
                   page, lastCall>>

\* api/search.py: the budget is exceeded at the top of an iteration
Timeout ==
    /\ pc = "loop"
    /\ LoopCond(results, limit, start, max_pages)
    /\ TimedOut(ctrl, elapsed)
    /\ Emit(<<[type |-> "timeout"], Complete(results)>>)
    /\ exit' = "complete"
    /\ pc' = "done"
    /\ UNCHANGED <<params, process, custom, results, start, attempts, max_pages, elapsed,
                   page, files, lastCall>>

\* top of an iteration up to the call of firecrawl_scrape
Progress ==
    /\ pc = "loop"
    /\ LoopCond(results, limit, start, max_pages)
    /\ ~TimedOut(ctrl, elapsed)
    /\ Emit(LET p == [type |-> "progress", current |-> Len(results),
                      total |-> limit, page |-> start]
            IN IF ctrl = "api" THEN <<p, [type |-> "debug", what |-> "call"]>>
               ELSE <<p>>)
    /\ pc' = "fetch"
    /\ UNCHANGED <<params, process, custom, results, start, attempts, max_pages, elapsed,
                   page, exit, files, lastCall>>

\* firecrawl_scrape is entered: requests.post is sent and the thread waits in
\* it for the answer
Call ==
    /\ pc = "fetch"
    /\ Emit(<<>>)
    /\ pc' = "calling"
    /\ UNCHANGED <<params, process, custom, results, start, attempts, max_pages, elapsed,
                   page, exit, files, lastCall>>

\* a faulty rate-limit branch: the cursor moves on as after a processed page
FetchRateLimited_skip ==
    /\ pc = "calling"
    /\ \E resp \in Answers :
          /\ Scraped[ctrl, resp].outcome = "RateLimited"
          /\ Log(resp)
    /\ LET wait == Backoff(ctrl, attempts)
       IN /\ Emit(IF ctrl = "api"
                  THEN <<[type |-> "debug", what |-> "exception"],
                         [type |-> "wait", seconds |-> wait]>>
                  ELSE <<[type |-> "wait", seconds |-> wait]>>)
          /\ elapsed' = IF ctrl = "api" THEN Min(timeout_limit + 1, elapsed + wait)
                        ELSE elapsed
    /\ attempts' = Min(AttemptsCap, attempts + 1)
    /\ start' = start + 10
    /\ pc' = "loop"
    /\ UNCHANGED <<params, process, custom, results, max_pages, page, exit, files>>

\* the scrape is answered RATE_LIMIT: wait event, sleep(wait), attempts += 1, continue
FetchRateLimited ==
    /\ pc = "calling"
    /\ \E resp \in Answers :
          /\ Scraped[ctrl, resp].outcome = "RateLimited"
          /\ Log(resp)
    /\ LET wait == Backoff(ctrl, attempts)
       IN /\ Emit(IF ctrl = "api"
                  THEN <<[type |-> "debug", what |-> "exception"],
                         [type |-> "wait", seconds |-> wait]>>
                  ELSE <<[type |-> "wait", seconds |-> wait]>>)
          /\ elapsed' = IF ctrl = "api" THEN Min(timeout_limit + 1, elapsed + wait)
                        ELSE elapsed
    /\ attempts' = Min(AttemptsCap, attempts + 1)
    /\ pc' = "loop"
    /\ UNCHANGED <<params, process, custom, results, start, max_pages, page, exit, files>>

\* the scrape fails otherwise: error event, sleep, attempts += 1, and past the
\* bound break (generate: complete follows) or raise (collect_titles)
FetchTransientError ==
    /\ pc = "calling"
    /\ \E resp \in Answers :
          /\ Scraped[ctrl, resp].outcome = "TransientError"
          /\ Log(resp)
    /\ attempts' = Min(AttemptsCap, attempts + 1)
    /\ elapsed' = IF ctrl = "api" THEN Min(timeout_limit + 1, elapsed + ErrorDelay(ctrl))
                  ELSE elapsed
    /\ LET abort == attempts' > RetryBound(ctrl)
           err == IF ctrl = "api"
                  THEN <<[type |-> "debug", what |-> "exception"],
                         [type |-> "error", message |-> "network"]>>
                  ELSE IF ctrl = "web"
                  THEN <<[type |-> "error", message |-> "network"]>>
                  ELSE <<[type |-> "retry"]>>
       IN /\ Emit(IF abort /\ Streaming
                  THEN err \o <<Complete(results)>>
                  ELSE err)
          /\ pc' = IF abort THEN "done" ELSE "loop"
          /\ exit' = IF ~abort THEN exit
                     ELSE IF Streaming THEN "complete" ELSE "raised"
    /\ UNCHANGED <<params, process, custom, results, start, max_pages, page, files>>

\* the scrape returns html: attempts = 0 and the page is extracted
FetchSuccess ==
    /\ pc = "calling"
    /\ \E resp \in Answers :
          /\ Scraped[ctrl, resp].outcome = "Success"
          /\ Log(resp)
          /\ new_items' = Scraped[ctrl, resp].items
    /\ Emit(IF ctrl = "api" THEN <<[type |-> "debug", what |-> "response"]>> ELSE <<>>)
    /\ attempts' = 0
    /\ new_count' = 0
    /\ idx' = 1
    /\ pc' = IF new_items' = <<>> THEN "page_end" ELSE "scan"
    /\ UNCHANGED <<params, process, custom, results, start, max_pages, elapsed, exit, files>>

\* a faulty append: the item event is built before the item is appended
ScanAccept_stale ==
    /\ pc = "scan"
    /\ LET cand == new_items[idx]
       IN /\ ~Rejects(ctrl, cand.title, Titles(results), q,
                      custom_exclude_keywords, custom_exclude_suffixes)
          /\ results' = Append(results, [title |-> cand.title, url |-> cand.url])
          /\ Emit(IF Streaming
                  THEN <<[type |-> "item",
                          item |-> [title |-> cand.title, url |-> cand.url],
                          total |-> Len(results)]>>
                  ELSE <<>>)
    /\ new_count' = new_count + 1
    /\ idx' = idx + 1
    /\ pc' = IF BreakOnLimit(results', limit) \/ idx' > Len(new_items)
             THEN "page_end" ELSE "scan"
    /\ UNCHANGED <<params, process, custom, start, attempts, max_pages, elapsed, new_items,
                   exit, files, lastCall>>

\* a faulty append: the accepted item is put in front of the earlier ones
ScanAccept_front ==
    /\ pc = "scan"
    /\ LET cand == new_items[idx]
       IN /\ ~Rejects(ctrl, cand.title, Titles(results), q,
                      custom_exclude_keywords, custom_exclude_suffixes)
          /\ results' = <<[title |-> cand.title, url |-> cand.url]>> \o results
          /\ Emit(IF Streaming
                  THEN <<[type |-> "item",
                          item |-> [title |-> cand.title, url |-> cand.url],
                          total |-> Len(results')]>>
                  ELSE <<>>)
    /\ new_count' = new_count + 1
    /\ idx' = idx + 1
    /\ pc' = IF BreakOnLimit(results', limit) \/ idx' > Len(new_items)
             THEN "page_end" ELSE "scan"
    /\ UNCHANGED <<params, process, custom, start, attempts, max_pages, elapsed, new_items,
                   exit, files, lastCall>>

\* one candidate of the page passes every check and is appended
ScanAccept ==
    /\ pc = "scan"
    /\ LET cand == new_items[idx]
       IN /\ ~Rejects(ctrl, cand.title, Titles(results), q,
                      custom_exclude_keywords, custom_exclude_suffixes)
          /\ results' = Append(results, [title |-> cand.title, url |-> cand.url])
          /\ Emit(IF Streaming
                  THEN <<[type |-> "item",
                          item |-> [title |-> cand.title, url |-> cand.url],
                          total |-> Len(results')]>>
                  ELSE <<>>)
    /\ new_count' = new_count + 1
    /\ idx' = idx + 1
    /\ pc' = IF BreakOnLimit(results', limit) \/ idx' > Len(new_items)
             THEN "page_end" ELSE "scan"
    /\ UNCHANGED <<params, process, custom, start, attempts, max_pages, elapsed, new_items,
                   exit, files, lastCall>>

\* one candidate of the page is skipped
ScanSkip ==
    /\ pc = "scan"
    /\ Rejects(ctrl, new_items[idx].title, Titles(results), q,
               custom_exclude_keywords, custom_exclude_suffixes)
    /\ Emit(<<>>)
    /\ idx' = idx + 1
    /\ pc' = IF idx' > Len(new_items) THEN "page_end" ELSE "scan"
    /\ UNCHANGED <<params, process, custom, results, start, attempts, max_pages, elapsed,
                   new_items, new_count, exit, files, lastCall>>

\* a faulty page end: a page without candidates is fetched again
PageComplete_refetch ==
    /\ pc = "page_end"
    /\ Emit(<<[type |-> "page_complete", page |-> start,
               found |-> IF Streaming THEN new_count ELSE Len(new_items),
               total |-> Len(results)]>>)
    /\ start' = IF new_items = <<>> THEN start ELSE start + 10
    /\ pc' = "loop"
    /\ UNCHANGED <<params, process, custom, results, attempts, max_pages, elapsed, page,
                   exit, files, lastCall>>

\* after the for loop: page_complete, start += 10, the inter-page sleep
PageComplete ==
    /\ pc = "page_end"
    /\ Emit(<<[type |-> "page_complete", page |-> start,
               found |-> IF Streaming THEN new_count ELSE Len(new_items),
               total |-> Len(results)]>>)
    /\ start' = start + 10
    /\ pc' = "loop"
    /\ UNCHANGED <<params, process, custom, results, attempts, max_pages, elapsed, page,
                   exit, files, lastCall>>

\* wall-clock time beyond the sleeps (a slow upstream call, a stalled event
\* loop): the clock is only read at the top of an iteration, so every such
\* delay shows there, as the budget being exceeded or not
ClockOverrun ==
    /\ ctrl = "api"
    /\ pc = "loop"
    /\ elapsed <= timeout_limit
    /\ elapsed' = timeout_limit + 1
    /\ UNCHANGED <<params, process, custom, pc, results, start, attempts, max_pages, page,
                   exit, files, out, count, lastCall>>

\* the steps of the program
Step ==
    \/ MissingKey
    \/ Begin
    \/ LoopExit
    \/ Timeout
    \/ Progress
    \/ Call
    \/ FetchRateLimited
    \/ FetchTransientError
    \/ FetchSuccess
    \/ ScanAccept
    \/ ScanSkip
    \/ PageComplete

Next == Step \/ ClockOverrun

Spec == Init /\ [][Next]_vars

\* a started run keeps executing: the interpreter runs the CLI to its end and
\* the server drives the generator while the client reads; nothing is assumed
\* about what the upstream answers
LiveSpec == Spec /\ WF_vars(Step)

----------------------------------------------------------------------------
(* Two requests served by one process.  Every request runs its own generate(), *)
(* whose variables are locals of that call; the event loop runs one of them at *)
(* a time and can change to the other only while the running one is suspended *)
(* in a yield or an await.                                                     *)

\* the locals of the running request
Locals ==
    [q |-> q, limit_arg |-> limit_arg, limit |-> limit,
     exclude_keywords |-> exclude_keywords, exclude_suffixes |-> exclude_suffixes,
     key |-> key, custom_exclude_keywords |-> custom_exclude_keywords,
     custom_exclude_suffixes |-> custom_exclude_suffixes, pc |-> pc,
     results |-> results, start |-> start, attempts |-> attempts,
     max_pages |-> max_pages, elapsed |-> elapsed, new_items |-> new_items,
     idx |-> idx, new_count |-> new_count, exit |-> exit, out |-> out,
     count |-> count, lastCall |-> lastCall]

\* the locals of a request that was received and has not run yet
Received(query, lim, extras) ==
    [q |-> query, limit_arg |-> lim, limit |-> ClampStream(lim),
     exclude_keywords |-> extras[1], exclude_suffixes |-> extras[2],
     key |-> <<>>, custom_exclude_keywords |-> <<>>,
     custom_exclude_suffixes |-> <<>>, pc |-> "idle",
     results |-> <<>>, start |-> 1, attempts |-> 0,
     max_pages |-> 0, elapsed |-> 0, new_items |-> <<>>,
     idx |-> 1, new_count |-> 0, exit |-> "running", out |-> <<>>,
     count |-> [t \in CountedTypes |-> 0], lastCall |-> NoCall]

\* the running generator is suspended, or not running: it has not been
\* started, it has returned, or its latest step ended in a yield (each sleep
\* of the generators follows a yield within the same step)
Suspended == pc \in {"idle", "done"} \/ out # <<>>

\* the event loop resumes the other request
Switch ==
    /\ parked # NoRequest
    /\ Suspended
    /\ parked' = Locals
    /\ running' = 3 - running
    /\ q' = parked.q
    /\ limit_arg' = parked.limit_arg
    /\ limit' = parked.limit
    /\ exclude_keywords' = parked.exclude_keywords
    /\ exclude_suffixes' = parked.exclude_suffixes
    /\ key' = parked.key
    /\ custom_exclude_keywords' = parked.custom_exclude_keywords
    /\ custom_exclude_suffixes' = parked.custom_exclude_suffixes
    /\ pc' = parked.pc
    /\ results' = parked.results
    /\ start' = parked.start
    /\ attempts' = parked.attempts
    /\ max_pages' = parked.max_pages
    /\ elapsed' = parked.elapsed
    /\ new_items' = parked.new_items
    /\ idx' = parked.idx
    /\ new_count' = parked.new_count
    /\ exit' = parked.exit
    /\ out' = parked.out
    /\ count' = parked.count
    /\ lastCall' = parked.lastCall
    /\ UNCHANGED <<ctrl, env_key, cfg_key, files, keywords_added, suffixes_added>>

\* the limits of the two requests
ConcLimits == {0}

\* a request without extras is received while one with extras waits to run
ConcInit ==
    /\ Entry(ConcLimits)
    /\ Streaming
    /\ exclude_keywords = <<>>
    /\ \E l \in ConcLimits, x \in ExtraParams :
          /\ x[1] # <<>>
          /\ parked = Received(q, l, x)
    /\ running = 1

ConcNext == Next \/ Switch

ConcSpec == ConcInit /\ [][ConcNext]_vars

\* The entry of a request up to the first test of the loop, for a wider choice
\* of limits
LimitInputs == {-3, 0, 1, 2, 50, 99, 100, 101, 250}

EntryInit == Entry(LimitInputs) /\ Alone

EntryNext == MissingKey \/ Begin

EntrySpec == EntryInit /\ [][EntryNext]_vars

\* The scan of one candidate, for a wider choice of queries and titles than the
\* pages of Responses hold: a run that fetched page 1 with nothing or TitleN
\* accepted before, and found the candidate on it.
FilterQueries == { <<51, 51068>>,                             \* 3일
                   <<50, 51068>>,                             \* 2일
                   <<32, 51, 51068>>,                         \* " 3일"
                   <<65, 32, 98>> }                           \* A b
TitleH == <<51, 51068, 32, 44036, 32, 50668, 54665>>          \* 3일 간 여행
TitleI == <<49, 48149, 32, 50, 51068, 32, 50668, 54665>>      \* 1박 2일 여행
TitleJ == <<50556, 45, 44396, 32, 49548, 49885>>              \* 야-구 소식
TitleK == <<65, 66, 44036, 32, 120>>                          \* AB간 x
TitleL == <<97, 32, 66, 32, 52196, 32, 121>>                  \* a B 쯤 y
TitleM == <<50, 51068, 32, 46041, 50504>>                     \* 2일 동안
FilterTitles == {TitleA, TitleD, TitleE, TitleF, TitleG, TitleH, TitleI, TitleJ,
                 TitleK, TitleL, TitleM}

FilterInit ==
    /\ ctrl \in Controllers
    /\ q \in FilterQueries
    /\ limit_arg = 5
    /\ limit = IF ctrl = "cli" THEN ClampCli(limit_arg) ELSE ClampStream(limit_arg)
    /\ \E x \in IF ctrl = "cli" THEN {<<<<>>, <<>>>>} ELSE ExtraParams :
          /\ exclude_keywords = x[1] /\ exclude_suffixes = x[2]
          /\ custom_exclude_keywords = SplitStrip(x[1])
          /\ custom_exclude_suffixes = SplitStrip(x[2])
    /\ env_key = <<107, 49>> /\ cfg_key = <<>>
    /\ key = read_firecrawl_key(ctrl, env_key, cfg_key)
    /\ pc = "scan"
    /\ results \in {<<>>, <<[title |-> TitleN, url |-> Url1]>>}
    /\ start = IF results = <<>> THEN 1 ELSE 11
    /\ attempts = 0
    /\ max_pages = MaxPages(ctrl, limit)
    /\ elapsed = 0
    /\ \E t \in FilterTitles : new_items = <<[title |-> t, url |-> Url2]>>
    /\ idx = 1
    /\ new_count = 0
    /\ exit = "running"
    /\ csv = <<>>
    /\ csv_written = FALSE
    /\ out = IF ctrl = "api" THEN <<[type |-> "debug", what |-> "response"]>> ELSE <<>>
    /\ count = [t \in CountedTypes |->
                  IF t = "start" THEN 1 ELSE IF t = "item" THEN Len(results) ELSE 0]
    /\ lastCall = [page |-> start, kind |-> "http", status |-> 200, text |-> <<>>,
                   no_html |-> FALSE]
    /\ keywords_added = <<>>
    /\ suffixes_added = <<>>
    /\ Alone

FilterNext == ScanAccept \/ ScanSkip

FilterSpec == FilterInit /\ [][FilterNext]_vars

----------------------------------------------------------------------------
(* Properties *)

\* the candidate the scan loop examines next
Candidate == new_items[idx].title

\* the candidate the latest scan step examined
Examined == new_items[idx - 1].title

\* the latest scan step skipped its candidate (an accepting step of a
\* generator yields an item event, a skipping step yields nothing)
JustSkipped ==
    /\ Streaming
    /\ pc \in {"scan", "page_end"}
    /\ idx > 1
    /\ out = <<>>

\* C1: in every controller the ResultSet never holds more than limit items,
\* the effective limit is in 1..100, and what is delivered (the item events
\* of a stream, the rows of the CSV file) is at most limit items
ResultSetWithinLimit ==
    /\ limit \in 1..100
    /\ Len(results) <= limit
    /\ count["item"] <= limit
    /\ Len(csv) <= limit

\* the limit is reached in the middle of a page: candidates are left unexamined
LimitReachedMidPage ==
    /\ pc = "page_end"
    /\ Len(results) = limit
    /\ idx <= Len(new_items)

\* C2: no two distinct items of the ResultSet have the same title
NoTwoSameTitle ==
    \A i, j \in 1..Len(results) :
        i # j => results[i].title # results[j].title

\* a candidate was skipped that only the exact-title check rejects
ExactDupSkipped ==
    /\ JustSkipped
    /\ ExactDup(Examined, Titles(results))
    /\ ~Excluded(ctrl, Examined, q, custom_exclude_keywords, custom_exclude_suffixes)
    /\ ~has_overlap_three_or_more(ctrl, Examined, Titles(results))

\* the tokens the specification calls meaningful: maximal runs of word
\* characters, lower-cased, single-character tokens discarded
MeaningfulTokens(t) == {w \in FindAllWords(Lower(t)) : Len(w) >= 2}

SharedMeaningful(a, b) == Cardinality(MeaningfulTokens(a) \cap MeaningfulTokens(b))

\* C3: no two distinct items of the ResultSet share 3 or more meaningful
\* tokens; a candidate sharing 3 or more meaningful tokens with an accepted
\* title is rejected, and a candidate sharing at most 2 with every accepted
\* title, exactly 2 with one of them, and not otherwise excluded, is accepted
NearDupByMeaningfulTokens ==
    /\ [](\A i, j \in 1..Len(results) :
             i # j => SharedMeaningful(results[i].title, results[j].title) < 3)
    /\ [][pc = "scan" =>
            LET ex == Titles(results)
            IN /\ (\E i \in 1..Len(ex) : SharedMeaningful(Candidate, ex[i]) >= 3)
                    => results' = results
               /\ ( /\ \A i \in 1..Len(ex) : SharedMeaningful(Candidate, ex[i]) <= 2
                    /\ \E i \in 1..Len(ex) : SharedMeaningful(Candidate, ex[i]) = 2
                    /\ ~ExactDup(Candidate, ex)
                    /\ ~Excluded(ctrl, Candidate, q, custom_exclude_keywords,
                                 custom_exclude_suffixes) )
                    => Len(results') = Len(results) + 1
      ]_vars

\* the last event of the latest step is complete with the size of the ResultSet
EndsWithComplete ==
    /\ out # <<>>
    /\ out[Len(out)] = [type |-> "complete", total |-> Len(results)]

\* C4: whenever a run that passed the credential check ends with a non-empty
\* ResultSet (limit reached, page budget exhausted, time budget exhausted,
\* failure-count abort), the caller has received the whole ResultSet: a stream
\* carried one item event per item and closes with complete, the CLI wrote
\* the items to the CSV file
PartialResultsDelivered ==
    (pc = "done" /\ results # <<>>) =>
        IF Streaming
        THEN count["item"] = Len(results) /\ EndsWithComplete
        ELSE csv_written /\ csv = results /\ exit = "complete"

\* C5: every collection run eventually reaches Done
EventuallyDone == <>(pc = "done")

\* the outcome the specification assigns to an upstream answer
ExpectedOutcome(call) ==
    IF call.kind = "http" /\ call.status = 200 THEN "Success"
    ELSE IF /\ call.kind = "http"
            /\ \/ call.status = 429
               \/ Contains(<<114, 97, 116, 101, 32, 108, 105, 109, 105, 116>>,
                           Lower(call.text))                     \* "rate limit"
    THEN "RateLimited"
    ELSE "TransientError"

\* the latest step reported a failed fetch (error event; [재시도] line of the CLI)
ErrorReported == CountIn(out, "error") + CountIn(out, "retry") > 0

\* the latest step announced a rate-limit backoff
WaitAnnounced == CountIn(out, "wait") > 0

\* C6: the branch a controller takes on an upstream answer is the one of the
\* specified classification: 200 is a Success (no candidates when the answer
\* has no html field), 429 or a non-200 answer whose text contains "rate limit"
\* in any case is RateLimited (backoff), everything else is a TransientError
ClassificationAsSpecified ==
    /\ pc \in {"scan", "page_end"} =>
          /\ ExpectedOutcome(lastCall) = "Success"
          /\ lastCall.no_html => new_items = <<>>
    /\ WaitAnnounced => ExpectedOutcome(lastCall) = "RateLimited"
    /\ (lastCall.page # 0 /\ ErrorReported) =>
          ExpectedOutcome(lastCall) = "TransientError"

\* C7: a 429 answer to the first call is followed by exactly one wait event
\* and no error event, with the cursor still at 1; when the second call is
\* answered 200 it was made for page 1, it announces no wait and no error,
\* the page is processed and the retry counter is back at 0
RateLimitedThenSuccess ==
    [][ /\ (pc = "calling" /\ lastCall = NoCall /\ lastCall'.status = 429) =>
              /\ CountIn(out', "wait") = 1
              /\ ~ErrorReported'
              /\ start' = 1
              /\ pc' = "loop"
        /\ (/\ pc = "calling" /\ lastCall.status = 429 /\ attempts = 1 /\ start = 1
            /\ lastCall'.status = 200) =>
              /\ lastCall'.page = 1
              /\ ~WaitAnnounced'
              /\ ~ErrorReported'
              /\ attempts' = 0
              /\ pc' \in {"scan", "page_end"}
      ]_vars

\* C8 (api/search.py): a step taken at the top of an iteration with the time
\* budget exceeded emits timeout, then complete with the size of the ResultSet,
\* and ends the run without a fetch; timeout is emitted at most once and only
\* when the budget is exceeded; nothing happens after the end; a budget
\* exceeded before the first fetch gives total 0 and no fetch
TimeoutStopsTheRun ==
    /\ [][ /\ (/\ ctrl = "api" /\ pc = "loop"
               /\ LoopCond(results, limit, start, max_pages)
               /\ elapsed > timeout_limit) =>
                 /\ out' = <<[type |-> "timeout"],
                             [type |-> "complete", total |-> Len(results)]>>
                 /\ pc' = "done"
                 /\ UNCHANGED <<results, lastCall>>
           /\ count'["timeout"] > count["timeout"] =>
                 /\ elapsed > timeout_limit
                 /\ count["timeout"] = 0
           /\ pc # "done"
         ]_vars
    /\ []((count["timeout"] > 0 /\ lastCall = NoCall) =>
             out[2].total = 0 /\ count["item"] = 0)

\* the budget ran out after items were collected
TimedOutWithItems ==
    /\ pc = "done"
    /\ count["timeout"] = 1
    /\ results # <<>>
    /\ EndsWithComplete

\* the credential is missing or blank for the entry point
CredentialBlank ==
    /\ Strip(env_key) = <<>>
    /\ ctrl = "api" \/ Strip(cfg_key) = <<>>

\* the single event of the latest step reports an error
OnlyAnErrorReport ==
    /\ Len(out) = 1
    /\ TypeOf(out[1]) = "error" \/ "error" \in DOMAIN out[1]

\* C9: with a missing or blank credential no fetch is issued, no item is
\* accepted or emitted, no CSV file is written, and the run ends at its first
\* step: SystemExit in the CLI, a single error report and no complete in a stream
BlankCredentialIsFatal ==
    CredentialBlank =>
        /\ lastCall = NoCall
        /\ results = <<>>
        /\ count["item"] = 0
        /\ count["complete"] = 0
        /\ ~csv_written /\ csv = <<>>
        /\ pc \in {"idle", "done"}
        /\ pc = "done" =>
              IF Streaming THEN exit = "error" /\ OnlyAnErrorReport
              ELSE exit = "SystemExit"

\* a stream ended on the credential check, the variable being set but blank
BlankCredentialRefused ==
    /\ Streaming
    /\ pc = "done"
    /\ env_key # <<>>
    /\ CredentialBlank

\* C10: a stream with the credential present has exactly one start event,
\* emitted before any other typed event of the run, and its last event is the
\* only complete event, whose total is the number of item events emitted; a
\* stream without the credential consists of one event of type error; nothing
\* is emitted after the terminal event
StreamEndsWithOneTerminalEvent ==
    /\ [](Streaming =>
            /\ pc = "idle" => \A t \in CountedTypes : count[t] = 0
            /\ pc \notin {"idle", "done"} =>
                  count["start"] = 1 /\ count["complete"] = 0
            /\ (pc = "done" /\ ~KeyMissing(key)) =>
                  /\ count["start"] = 1
                  /\ count["complete"] = 1
                  /\ EndsWithComplete
                  /\ count["item"] = Len(results)
            /\ (pc = "done" /\ KeyMissing(key)) =>
                  /\ count["start"] = 0
                  /\ count["complete"] = 0
                  /\ Len(out) = 1
                  /\ TypeOf(out[1]) = "error")
    /\ [][pc # "done"]_vars

\* the largest cursor the page budget allows
LastCursor == 1 + (max_pages - 1) * 10

\* C11: the cursor is 1 until the first page is done, a step leaves it alone
\* or adds exactly 10; every call is made for the cursor, within the page
\* budget (min(3, limit div 5 + 1) pages in api/search.py, PageBudget pages
\* elsewhere); the first call is for page 1, a call that follows a success is
\* for the next page, so that successive successes fetch 1, 11, 21, ...
CursorAdvancesByTen ==
    /\ [](pc = "idle" => start = 1)
    /\ [](pc \notin {"idle", "done"} =>
            /\ max_pages = IF ctrl = "api" THEN Min(3, (limit \div 5) + 1)
                           ELSE PageBudget
            /\ start >= 1 /\ start % 10 = 1)
    /\ [](pc \in {"fetch", "calling"} =>
            /\ start <= LastCursor
            /\ lastCall = NoCall => start = 1
            /\ (lastCall # NoCall /\ attempts = 0) => start = lastCall.page + 10)
    /\ [](lastCall # NoCall => lastCall.page <= LastCursor)
    /\ [][ /\ start' = start \/ start' = start + 10
           /\ pc = "calling" => lastCall'.page = start
         ]_vars

\* three pages in a row were fetched successfully
ThirdPageFetched ==
    /\ pc \in {"scan", "page_end"}
    /\ lastCall.page = 21
    /\ start = 21

\* the page_complete event (the [수집] line of the CLI) of a page without
\* candidates: found 0 and the running total
EmptyPageReport ==
    <<[type |-> "page_complete", page |-> start, found |-> 0,
       total |-> Len(results)]>>

\* C12: a successful fetch that yields no candidates is not an error: the call
\* reports neither an error nor a wait, leaves the ResultSet and the cursor
\* alone and resets the retry counter; the page then ends with page_complete,
\* found 0 and the unchanged total, the cursor advances by 10 and the run goes on
EmptyPageIsNotAnError ==
    /\ [](pc = "page_end" /\ new_items = <<>> =>
             attempts = 0 /\ new_count = 0 /\ exit = "running")
    /\ [][ /\ (pc = "calling" /\ pc' = "page_end" /\ new_items' = <<>>) =>
                 /\ ExpectedOutcome(lastCall') = "Success"
                 /\ ~ErrorReported' /\ ~WaitAnnounced'
                 /\ UNCHANGED <<results, start, count>>
           /\ (pc = "page_end" /\ new_items = <<>>) =>
                 /\ out' = EmptyPageReport
                 /\ start' = start + 10
                 /\ pc' = "loop"
                 /\ UNCHANGED <<results, attempts, exit>>
         ]_vars

\* a page without candidates was reported after items had been collected
EmptyPageAfterItems ==
    /\ pc = "loop"
    /\ new_items = <<>>
    /\ results # <<>>
    /\ Len(out) = 1
    /\ TypeOf(out[1]) = "page_complete"
    /\ out[1].found = 0
    /\ out[1].total = Len(results)

\* C15: the exclusion filter is a function of the title, the query and the
\* caller's extras: for every title, applying the keyword filter and then the
\* suffix filter gives the verdict of the reverse order, which is the verdict
\* of the controller's chain of checks; a second evaluation after the scan
\* step gives the same verdicts; and a candidate the filter rejects leaves the
\* ResultSet as it was, whatever the ResultSet holds
FilterIdempotentAndOrderIndependent ==
    /\ [](\A t \in FilterTitles :
            LET kw == KeywordFilter(ctrl, t, custom_exclude_keywords)
                sf == SuffixFilter(ctrl, t, q, custom_exclude_suffixes)
                keyword_then_suffix == IF kw THEN TRUE ELSE sf
                suffix_then_keyword == IF sf THEN TRUE ELSE kw
            IN /\ keyword_then_suffix = suffix_then_keyword
               /\ Excluded(ctrl, t, q, custom_exclude_keywords,
                           custom_exclude_suffixes) = keyword_then_suffix)
    /\ [][ pc = "scan" =>
            /\ \A t \in FilterTitles :
                 /\ KeywordFilter(ctrl, t, custom_exclude_keywords)' =
                        KeywordFilter(ctrl, t, custom_exclude_keywords)
                 /\ SuffixFilter(ctrl, t, q, custom_exclude_suffixes)' =
                        SuffixFilter(ctrl, t, q, custom_exclude_suffixes)
            /\ ( \/ KeywordFilter(ctrl, Candidate, custom_exclude_keywords)
                 \/ SuffixFilter(ctrl, Candidate, q, custom_exclude_suffixes) ) =>
                    /\ results' = results
                    /\ new_count' = new_count
                    /\ count' = count ]_vars

\* the suffix filter alone rejected a candidate of a request that supplied
\* extras, with an item already in the ResultSet
SuffixOnlyRejection ==
    /\ pc = "page_end"
    /\ idx = 2
    /\ Examined = TitleD
    /\ custom_exclude_keywords # <<>>
    /\ ~KeywordFilter(ctrl, Examined, custom_exclude_keywords)
    /\ SuffixFilter(ctrl, Examined, q, custom_exclude_suffixes)
    /\ Len(results) = 1
    /\ new_count = 0

\* the elements of a sequence
Range(s) == {s[i] : i \in 1..Len(s)}

\* C16 as stated: the title without spaces and hyphens contains a keyword of
\* the static blocklist or one of the caller's extra keywords
KeywordRejectAsSpecified(title, extras) ==
    \E k \in Range(StaticKeywords) \cup Range(extras) :
        Contains(k, Remove(Remove(title, 32), 45))

\* C16: in every controller the keyword filter rejects a title exactly when
\* the title with spaces and hyphens removed contains a keyword of the static
\* blocklist or an extra keyword of the request, and a candidate it rejects is
\* not added to the ResultSet (nor emitted), whether or not the title contains
\* the query
KeywordFilterAsSpecified ==
    /\ [](\A t \in FilterTitles :
            KeywordFilter(ctrl, t, custom_exclude_keywords) <=>
                KeywordRejectAsSpecified(t, custom_exclude_keywords))
    /\ [][ (pc = "scan" /\ KeywordRejectAsSpecified(Candidate, custom_exclude_keywords)) =>
              /\ results' = results
              /\ count' = count
              /\ out' = <<>> ]_vars
    /\ [](\A i \in 1..Len(results) :
            ~KeywordRejectAsSpecified(results[i].title, custom_exclude_keywords))

\* query "2일": the candidate "2일 야구 경기 결과" was examined and not added
BaseballTitleRejected ==
    /\ q = <<50, 51068>>
    /\ pc = "page_end"
    /\ idx = 2
    /\ Examined = TitleE
    /\ Contains(q, Examined)
    /\ new_count = 0
    /\ \A i \in 1..Len(results) : results[i].title # TitleE

\* C17 as stated: for a suffix of the fixed set or of the caller's extras, one
\* of query+suffix, query+" "+suffix, query-without-spaces+suffix is a
\* case-insensitive substring of the title
SuffixRejectAsSpecified(title, query, extras) ==
    \E s \in Range(StaticSuffixes) \cup Range(extras) :
        \E p \in {query \o s, query \o <<32>> \o s, Remove(query, 32) \o s} :
            Contains(Lower(p), Lower(title))

\* C17: in every controller the query-suffix filter rejects a title exactly
\* when one of the three patterns built from the query and a suffix of the
\* fixed set, or an extra suffix of the request, is a case-insensitive
\* substring of the title; this is the verdict the scan step acted on, and a
\* title rejected so is not in the ResultSet
QuerySuffixFilterAsSpecified ==
    (pc \in {"scan", "page_end"} /\ idx > 1) =>
        /\ SuffixFilter(ctrl, Examined, q, custom_exclude_suffixes) <=>
               SuffixRejectAsSpecified(Examined, q, custom_exclude_suffixes)
        /\ SuffixRejectAsSpecified(Examined, q, custom_exclude_suffixes) =>
               \A i \in 1..Len(results) : results[i].title # Examined

\* C18: the limit a controller works with is the caller's limit clamped into
\* 1..100: the input itself when it is in 1..100, 1 below, 100 above; it is
\* the limit announced by the start event and the one the page budget of
\* api/search.py is computed from
EffectiveLimitClamped ==
    LET clamped == IF limit_arg < 1 THEN 1
                   ELSE IF limit_arg > 100 THEN 100 ELSE limit_arg
    IN /\ limit = clamped
       /\ limit \in 1..100
       /\ \A i \in 1..Len(out) :
              TypeOf(out[i]) = "start" => out[i].limit = clamped
       /\ pc = "loop" => max_pages = MaxPages(ctrl, clamped)

\* a stream was started with a limit below the range
LimitBelowRangeStarted ==
    /\ Streaming
    /\ pc = "loop"
    /\ limit_arg < 1
    /\ limit = 1
    /\ count["start"] = 1

\* the call was answered in the way the controller takes for a rate limit
\* (the except branch "RATE_LIMIT")
RateLimitedCall(c, call) ==
    /\ call.kind # "none"
    /\ Outcome(c, firecrawl_scrape(c, [kind |-> call.kind, status |-> call.status,
                                       reason |-> <<>>, text |-> call.text,
                                       data_html |-> <<>>, top_html |-> <<>>]))
          = "RateLimited"

\* the pages the page budget still allows
PagesLeft == IF start > LastCursor THEN 0 ELSE ((LastCursor - start) \div 10) + 1

\* C19: a fetch answered RateLimited emits exactly one wait event and leaves
\* the cursor, the ResultSet and the page budget as they were, so that the
\* pages the budget still allows are the same after any number of such
\* answers; the next fetch is for the same page
RateLimitedKeepsThePage ==
    /\ [][ (pc = "calling" /\ RateLimitedCall(ctrl, lastCall')) =>
              /\ CountIn(out', "wait") = 1
              /\ start' = start
              /\ results' = results
              /\ max_pages' = max_pages
              /\ PagesLeft' = PagesLeft
              /\ pc' = "loop" ]_vars
    /\ [][ (pc = "calling" /\ RateLimitedCall(ctrl, lastCall)) =>
              lastCall'.page = lastCall.page ]_vars
    /\ [](pc \in {"loop", "fetch", "calling"} =>
              /\ max_pages = MaxPages(ctrl, limit)
              /\ RateLimitedCall(ctrl, lastCall) => start = lastCall.page)

\* the second page is fetched again after two answers in a row that were not
\* a success, the latest a rate limit, with items already collected
RateLimitedOnSecondPage ==
    /\ pc = "calling"
    /\ start = 11
    /\ attempts = 2
    /\ lastCall.page = 11
    /\ RateLimitedCall(ctrl, lastCall)
    /\ results # <<>>

\* C20: the abort of the loop is taken only on a TransientError outcome that
\* makes more than the bound (3 in api/search.py, 5 elsewhere) of them since
\* the last Success: the counter the abort tests is 0 after a Success, one more
\* after a TransientError, and left alone by a RateLimited outcome, which
\* therefore never brings the controller closer to the abort
AbortCountsTransientErrorsOnly ==
    /\ [][ (pc = "calling" /\ pc' = "done") =>
              /\ ~RateLimitedCall(ctrl, lastCall')
              /\ attempts' > RetryBound(ctrl) ]_vars
    /\ [][ (pc = "calling" /\ pc' \in {"scan", "page_end"}) => attempts' = 0 ]_vars
    /\ [][ (pc = "calling" /\ RateLimitedCall(ctrl, lastCall')) =>
              attempts' = attempts ]_vars

\* the extras a request works with are the ones its caller supplied
OwnExtras(r) ==
    r.pc # "idle" =>
        /\ r.custom_exclude_keywords = SplitStrip(r.exclude_keywords)
        /\ r.custom_exclude_suffixes = SplitStrip(r.exclude_suffixes)

\* C13: two requests served by one process share no mutable state: a step of
\* one request leaves every local of the other (ResultSet, cursor, retry
\* counter, emitted events) as it was and is a step the request can take when
\* it is served alone; resuming the other request restores its locals
\* exactly; each request filters with its own caller's extras only; and the
\* static keyword and suffix lists are never modified
RequestsShareNoMutableState ==
    /\ [](EXCLUDE_KEYWORDS = StaticKeywords /\ QUERY_SUFFIXES = StaticSuffixes)
    /\ [](OwnExtras(Locals) /\ OwnExtras(parked))
    /\ [][ running' = running => (parked' = parked /\ Next) ]_vars
    /\ [][ running' # running => (parked' = Locals /\ Locals' = parked) ]_vars

\* both requests have ended: the one without extras collected "dd ee", the
\* one that excludes "ee" collected another title from its second page
BothServedDifferently ==
    /\ pc = "done" /\ parked.pc = "done"
    /\ Len(results) = 1 /\ Len(parked.results) = 1
    /\ \E a, b \in {Locals, parked} :
          /\ a.custom_exclude_keywords = <<>>
          /\ a.results[1].title = TitleF
          /\ b.custom_exclude_keywords # <<>>
          /\ b.results[1].title = TitleC
          /\ b.lastCall.page = 11

\* the running request is at one of its suspension points: in the network
\* call of the fetch client, or in the sleep that follows the wait event, the
\* page_complete event or the error event
AtSuspensionPoint ==
    /\ Streaming
    /\ \/ pc = "calling"
       \/ pc = "loop" /\ CountIn(out, "wait") > 0
       \/ pc = "loop" /\ CountIn(out, "page_complete") > 0
       \/ pc = "loop" /\ CountIn(out, "error") > 0

\* C14: while a streaming request is at a suspension point (the network call,
\* the rate-limit backoff, the inter-page delay, the delay after a transient
\* error), the event loop can run the other request it serves
SuspensionIsCooperative ==
    (AtSuspensionPoint /\ parked # NoRequest /\ parked.pc # "done") =>
        ENABLED Switch

\* the seconds announced by the wait event of the latest step
AnnouncedWait(evs) ==
    LET i == CHOOSE j \in 1..Len(evs) : TypeOf(evs[j]) = "wait"
    IN evs[i].seconds

\* C21 as stated: the backoff for the k-th rate-limited response in a row
BackoffAsSpecified(c, k) ==
    IF c = "api" THEN Min(5, 1 + k) ELSE Min(10, 2 + 2 * k)

\* C21: the wait announced for a rate-limited response is min(5, 1 + k)
\* (api/search.py) or min(10, 2 + 2k) (newsScrp.py, web/server.py), k being
\* the number of rate-limited responses since the last Success: the number it
\* is computed from is 0 after a Success, one more after a rate-limited
\* response and not changed by any other response; so the wait never
\* decreases from one rate limit to the next, never exceeds the cap and is
\* back at its base after a Success
BackoffCountsRateLimits ==
    /\ [][ (pc = "calling" /\ RateLimitedCall(ctrl, lastCall')) =>
              /\ CountIn(out', "wait") = 1
              /\ AnnouncedWait(out') = BackoffAsSpecified(ctrl, attempts)
              /\ AnnouncedWait(out') <= IF ctrl = "api" THEN 5 ELSE 10
              /\ attempts' = Min(AttemptsCap, attempts + 1) ]_vars
    /\ [][ (pc = "calling" /\ pc' \in {"scan", "page_end"}) => attempts' = 0 ]_vars
    /\ [][ (pc = "calling" /\ pc' \notin {"scan", "page_end"}
              /\ ~RateLimitedCall(ctrl, lastCall')) => attempts' = attempts ]_vars

\* the item event of the latest step, if it yielded one
ItemEvent(evs) == evs[CHOOSE j \in 1..Len(evs) : TypeOf(evs[j]) = "item"]

\* C22: in the streaming controllers a step that changes the ResultSet appends
\* one item and yields exactly one item event, for that item, whose total is
\* the size of the ResultSet at that moment; item events are yielded by such
\* steps only, so the totals of successive item events are 1, 2, 3, ...; once
\* the ResultSet holds limit items no candidate is examined, no item event is
\* yielded and no page is fetched any more
ItemEventPerAcceptedCandidate ==
    /\ [][ (Streaming /\ results' # results) =>
              /\ pc = "scan"
              /\ results' = Append(results, [title |-> Candidate, url |-> new_items[idx].url])
              /\ idx' = idx + 1
              /\ CountIn(out', "item") = 1
              /\ Len(out') = 1
              /\ ItemEvent(out').item = results'[Len(results')]
              /\ ItemEvent(out').total = Len(results')
              /\ ItemEvent(out').total = count["item"] + 1 ]_vars
    /\ [][ (Streaming /\ CountIn(out', "item") > 0) => results' # results ]_vars
    /\ [][ (Streaming /\ pc # "idle" /\ Len(results) >= limit) =>
              /\ idx' = idx
              /\ results' = results
              /\ CountIn(out', "item") = 0
              /\ lastCall' = lastCall
              /\ pc' \in {"loop", "done"} ]_vars

\* a stream has yielded its second item event, which fills the ResultSet
\* while candidates of the page are left and the page budget is not used up
SecondItemFillsTheResultSet ==
    /\ Streaming
    /\ pc = "page_end"
    /\ CountIn(out, "item") = 1
    /\ ItemEvent(out).total = 2
    /\ limit = 2
    /\ idx <= Len(new_items)
    /\ start + 10 <= LastCursor

\* s is an initial part of t
IsPrefix(s, t) == Len(s) <= Len(t) /\ SubSeq(t, 1, Len(s)) = s

\* C23: in every step of every controller the previous ResultSet is a prefix
\* of the next one, which is at most one item longer, the new item being the
\* candidate under examination; a candidate that is an exact duplicate of an
\* accepted item, or shares 3 or more meaningful tokens with one, leaves the
\* ResultSet as it is
ResultSetAppendOnly ==
    /\ [][ /\ IsPrefix(results, results')
           /\ Len(results') <= Len(results) + 1
           /\ results' # results =>
                 /\ pc = "scan"
                 /\ results'[Len(results')] =
                        [title |-> Candidate, url |-> new_items[idx].url] ]_vars
    /\ [][ ( /\ pc = "scan"
             /\ \/ ExactDup(Candidate, Titles(results))
                \/ \E i \in 1..Len(results) :
                       SharedMeaningful(Candidate, results[i].title) >= 3 )
           => results' = results ]_vars

\* the CLI has examined a near duplicate of the first of two accepted items
\* and has kept both as they were
NearDupLeftTheTwoItems ==
    /\ ctrl = "cli"
    /\ pc \in {"scan", "page_end"}
    /\ idx > 1
    /\ Len(results) = 2
    /\ \A i \in 1..2 : results[i].title # Examined
    /\ SharedMeaningful(Examined, results[1].title) >= 3

\* C24: the two entry points judge near duplicates alike: for the candidate
\* under examination and the titles accepted so far, the verdict of
\* api/search.has_overlap_three_or_more is that of
\* newsScrp.has_overlap_three_or_more (one token policy, single-character
\* tokens discarded), so that either entry point would take the same
\* decision on the candidate
DedupVerdictsAgree ==
    pc = "scan" =>
        LET ex == Titles(results)
        IN has_overlap_three_or_more_api(Candidate, ex)
              = has_overlap_three_or_more_cli(Candidate, ex)

====
